---- MODULE Spec2Model ----
(***************************************************************************)
(* Model of the automizor client library:                                  *)
(*   - automizor/vault/_vault.py     (class Vault)                         *)
(*   - automizor/storage/__init__.py (the public storage functions)        *)
(*                                                                         *)
(* A vault call is split at its network waits: the client issues a         *)
(* request, the remote service answers (or the network fails), and the     *)
(* client code that follows session.get/put/post runs on the answer.       *)
(* The remote service is a separate process; a rejected or failed request  *)
(* leaves its state unchanged.                                              *)
(***************************************************************************)
EXTENDS Integers, Sequences, FiniteSets, TLC

VARIABLES remote, pc, call, sent, inflight, received, result,
          instance, vaults, accessorBuilt, returned, getCalls,
          assets, lastWrite, scall

vaultVars == <<remote, pc, call, sent, inflight, received, result>>
instVars == <<instance, vaults, accessorBuilt, returned, getCalls>>
storVars == <<assets, lastWrite, scall>>
vars == <<remote, pc, call, sent, inflight, received, result,
          instance, vaults, accessorBuilt, returned, getCalls,
          assets, lastWrite, scall>>

None == "None"

\* a step of one client leaves the state of the other two alone
VaultOnly == UNCHANGED <<instVars, storVars>>
InstanceOnly == UNCHANGED <<vaultVars, storVars>>
StorageOnly == UNCHANGED <<vaultVars, instVars>>

(***************************************************************************)
(* Vault                                                                   *)
(***************************************************************************)

SecretNames == {"a", "b"}

\* a secret value is a mapping from field names to strings, kept as its graph
SecretValues == { {<<"username", "admin">>}, {<<"password", "x">>} }

\* SecretContainer(name, value)
SecretContainer == [name : SecretNames, value : SecretValues]

NoCall == [op |-> None]
NoResult == [kind |-> None]

\* bodies a response can carry
SecretBody(s) == [fmt |-> "json", t |-> "secret", secret |-> s]
DetailBody == [fmt |-> "json", t |-> "detail"]
EmptyJsonBody == [fmt |-> "json", t |-> "empty"]
TextBody == [fmt |-> "text", t |-> "text"]

Response(status, body) == [kind |-> "response", status |-> status, body |-> body]
ConnectionError == [kind |-> "ConnectionError"]
Timeout == [kind |-> "Timeout"]

\* the remote state r maps the names that exist to their values
Exists(r, name) == name \in DOMAIN r

\* r with name bound to value, whatever was stored under name before
Store(r, name, value) ==
    [n \in DOMAIN r \cup {name} |-> IF n = name THEN value ELSE r[n]]

\* the service's answer to a request in remote state r: <<response, new state>>
Serve(req, r) ==
    CASE req.method = "GET" ->
           IF Exists(r, req.name)
             THEN <<Response(200, SecretBody([name |-> req.name, value |-> r[req.name]])), r>>
             ELSE <<Response(404, DetailBody), r>>
      [] req.method = "PUT" ->
           IF Exists(r, req.name)
             THEN <<Response(200, SecretBody([name |-> req.name, value |-> req.json.value])),
                    Store(r, req.name, req.json.value)>>
             ELSE <<Response(404, DetailBody), r>>
      [] req.method = "POST" ->
           IF ~Exists(r, req.json.name)
             THEN <<Response(201, SecretBody(req.json)),
                    Store(r, req.json.name, req.json.value)>>
             ELSE <<Response(400, DetailBody), r>>

\* answers of a failing service or network; none of them changes the remote state
Faults ==
    { Response(500, DetailBody), Response(500, EmptyJsonBody), Response(500, TextBody),
      Response(200, TextBody), Response(200, DetailBody),
      ConnectionError, Timeout }

\* response.raise_for_status()
RaiseForStatus(status) == 400 <= status /\ status < 600

\* the try block "response = session.X(...); response.raise_for_status();
\* return SecretContainer(**response.json())": the value returned or the
\* exception raised
TryRequest(rsp) ==
    IF rsp.kind # "response"
      THEN [raised |-> rsp.kind, hasResponse |-> FALSE]
    ELSE IF RaiseForStatus(rsp.status)
      THEN [raised |-> "HTTPError", hasResponse |-> TRUE,
            status |-> rsp.status, body |-> rsp.body]
    ELSE IF rsp.body.fmt # "json"
      THEN [raised |-> "JSONDecodeError", hasResponse |-> FALSE]
    ELSE IF rsp.body.t # "secret"
      THEN [raised |-> "TypeError", hasResponse |-> FALSE]
    ELSE [raised |-> None, value |-> rsp.body.secret]

\* str(exc)
StrExc(exc) ==
    IF exc.raised = "HTTPError"
      THEN [t |-> "exc", exc |-> "HTTPError", status |-> exc.status]
      ELSE [t |-> "exc", exc |-> exc.raised]

\* try: msg = exc.response.json()  except (AttributeError, ValueError): msg = str(exc)
ExcMessage(exc) ==
    IF exc.hasResponse /\ exc.body.fmt = "json"
      THEN [t |-> "json", data |-> exc.body.t]
      ELSE StrExc(exc)

Returned(s) == [kind |-> "ok", value |-> s]
SecretNotFoundError(name) == [kind |-> "SecretNotFoundError", name |-> name]
AutomizorVaultError(prefix, msg) ==
    [kind |-> "AutomizorVaultError", prefix |-> prefix, msg |-> msg]

\* _get_secret without the test of the status code
GetSecretOutcomeNo404(name, rsp) ==
    LET t == TryRequest(rsp) IN
    IF t.raised = None THEN Returned(t.value)
    ELSE IF t.raised = "HTTPError"
      THEN AutomizorVaultError("Failed to get secret", StrExc(t))
    ELSE AutomizorVaultError("Failed to get secret", ExcMessage(t))

\* Vault._get_secret after session.get has answered
GetSecretOutcome(name, rsp) ==
    LET t == TryRequest(rsp) IN
    IF t.raised = None THEN Returned(t.value)
    ELSE IF t.raised = "HTTPError"
      THEN IF t.status = 404
             THEN SecretNotFoundError(name)
             ELSE AutomizorVaultError("Failed to get secret", StrExc(t))
    ELSE AutomizorVaultError("Failed to get secret", ExcMessage(t))

\* Vault._update_secret after session.put has answered
UpdateSecretOutcome(secret, rsp) ==
    LET t == TryRequest(rsp) IN
    IF t.raised = None THEN Returned(t.value)
    ELSE IF t.raised = "HTTPError"
      THEN IF t.status = 404
             THEN SecretNotFoundError(secret.name)
             ELSE AutomizorVaultError("Failed to get secret", StrExc(t))
    ELSE AutomizorVaultError("Failed to set secret", ExcMessage(t))

\* Vault._create_secret after session.post has answered
CreateSecretOutcome(secret, rsp) ==
    LET t == TryRequest(rsp) IN
    IF t.raised = None THEN Returned(t.value)
    ELSE LET msg == ExcMessage(t) IN
         AutomizorVaultError("Failed to create secret",
             IF msg.t = "json" /\ msg.data = "empty" THEN StrExc(t) ELSE msg)

GetRequest(name) == [method |-> "GET", name |-> name]
PutRequest(secret) == [method |-> "PUT", name |-> secret.name, json |-> secret]
PostRequest(secret) == [method |-> "POST", name |-> None, json |-> secret]

VaultInit ==
    /\ remote = <<>>
    /\ pc = "idle"
    /\ call = NoCall
    /\ sent = <<>>
    /\ inflight = None
    /\ received = <<>>
    /\ result = NoResult

\* a request leaves the client
Issue(req) ==
    /\ inflight' = req
    /\ pc' = "waiting"

\* Vault.get_secret(name) up to session.get
get_secret(name) ==
    /\ VaultOnly
    /\ pc = "idle"
    /\ call' = [op |-> "get_secret", name |-> name]
    /\ sent' = <<GetRequest(name)>>
    /\ Issue(GetRequest(name))
    /\ received' = <<>>
    /\ result' = NoResult
    /\ UNCHANGED remote

\* Vault.set_secret(secret) up to session.put
set_secret(secret) ==
    /\ VaultOnly
    /\ pc = "idle"
    /\ call' = [op |-> "set_secret", name |-> secret.name, secret |-> secret]
    /\ sent' = <<PutRequest(secret)>>
    /\ Issue(PutRequest(secret))
    /\ received' = <<>>
    /\ result' = NoResult
    /\ UNCHANGED remote

\* Vault.create_secret(secret) up to the session.put of _update_secret
create_secret(secret) ==
    /\ VaultOnly
    /\ pc = "idle"
    /\ call' = [op |-> "create_secret", name |-> secret.name, secret |-> secret]
    /\ sent' = <<PutRequest(secret)>>
    /\ Issue(PutRequest(secret))
    /\ received' = <<>>
    /\ result' = NoResult
    /\ UNCHANGED remote

\* the service answers the request in flight
RemoteAnswers ==
    /\ VaultOnly
    /\ pc = "waiting"
    /\ LET a == Serve(inflight, remote) IN
         /\ received' = Append(received, a[1])
         /\ remote' = a[2]
    /\ pc' = "answered"
    /\ inflight' = None
    /\ UNCHANGED <<call, sent, result>>

\* the service or the network fails the request in flight
RemoteFails ==
    /\ VaultOnly
    /\ pc = "waiting"
    /\ \E f \in Faults : received' = Append(received, f)
    /\ pc' = "answered"
    /\ inflight' = None
    /\ UNCHANGED <<remote, call, sent, result>>

LastReceived == received[Len(received)]

Finish(r) ==
    /\ result' = r
    /\ pc' = "idle"
    /\ UNCHANGED <<remote, call, sent, inflight, received>>

\* get_secret returns or raises what _get_secret does
get_secret_done ==
    /\ VaultOnly
    /\ pc = "answered"
    /\ call.op = "get_secret"
    /\ Finish(GetSecretOutcome(call.name, LastReceived))

\* set_secret returns or raises what _update_secret does
set_secret_done ==
    /\ VaultOnly
    /\ pc = "answered"
    /\ call.op = "set_secret"
    /\ Finish(UpdateSecretOutcome(call.secret, LastReceived))

\* create_secret that posts whatever _update_secret did
CreateSecretAlwaysPosts(outcome) == "post"

\* create_secret that falls back to the POST on any error of the PUT
CreateSecretPostsOnAnyError(outcome) ==
    IF outcome.kind # "ok" THEN "post" ELSE "finish"

\* create_secret without the except clause
CreateSecretNeverPosts(outcome) == "finish"

\* what create_secret does with the outcome of _update_secret:
\* "post" on SecretNotFoundError, else the outcome is the call's
CreateSecretFallback(outcome) ==
    IF outcome.kind = "SecretNotFoundError" THEN "post" ELSE "finish"

\* create_secret after the PUT has answered: try/except SecretNotFoundError
create_secret_put_done ==
    /\ VaultOnly
    /\ pc = "answered"
    /\ call.op = "create_secret"
    /\ Len(sent) = 1
    /\ LET o == UpdateSecretOutcome(call.secret, LastReceived) IN
         IF CreateSecretFallback(o) = "post"
           THEN /\ sent' = Append(sent, PostRequest(call.secret))
                /\ Issue(PostRequest(call.secret))
                /\ UNCHANGED <<remote, call, received, result>>
           ELSE Finish(o)

\* create_secret after the POST of _create_secret has answered
create_secret_post_done ==
    /\ VaultOnly
    /\ pc = "answered"
    /\ call.op = "create_secret"
    /\ Len(sent) = 2
    /\ Finish(CreateSecretOutcome(call.secret, LastReceived))

VaultNext ==
    \/ \E n \in SecretNames : get_secret(n)
    \/ \E s \in SecretContainer : set_secret(s)
    \/ \E s \in SecretContainer : create_secret(s)
    \/ RemoteAnswers
    \/ RemoteFails
    \/ get_secret_done
    \/ set_secret_done
    \/ create_secret_put_done
    \/ create_secret_post_done

(***************************************************************************)
(* Vault.get_instance                                                      *)
(***************************************************************************)

\* bounds on the number of Vault objects built and of get_instance calls
MaxVaults == 5
MaxGetCalls == 8

\* Vault objects are numbered 1, 2, ... in the order of their construction;
\* 0 stands for None
NoInstance == 0

InstanceInit ==
    /\ instance = NoInstance
    /\ vaults = 0
    /\ accessorBuilt = 0
    /\ returned = {}
    /\ getCalls = 0

\* get_instance without the test of cls._instance
GetInstanceAlwaysBuilds(inst, fresh) == fresh

\* Vault.get_instance(): the value of cls._instance after the call, given
\* its value before and the object Vault() would build
GetInstance(inst, fresh) == IF inst = NoInstance THEN fresh ELSE inst

\* a call of Vault.get_instance()
get_instance ==
    /\ InstanceOnly
    /\ getCalls < MaxGetCalls
    /\ instance = NoInstance => vaults < MaxVaults
    /\ instance' = GetInstance(instance, vaults + 1)
    /\ vaults' = IF instance = NoInstance THEN vaults + 1 ELSE vaults
    /\ accessorBuilt' = IF instance = NoInstance THEN accessorBuilt + 1 ELSE accessorBuilt
    /\ returned' = returned \cup {instance'}
    /\ getCalls' = getCalls + 1

\* a direct construction Vault(): __init__ reads the environment and builds
\* a session, the class attribute _instance is not touched
Vault ==
    /\ InstanceOnly
    /\ vaults < MaxVaults
    /\ vaults' = vaults + 1
    /\ UNCHANGED <<instance, accessorBuilt, returned, getCalls>>

InstanceNext ==
    \/ get_instance
    \/ Vault

(***************************************************************************)
(* Storage                                                                 *)
(***************************************************************************)

AssetNames == {"x", "y"}

\* bounds on the length of the texts and byte strings given to the writers
MaxTextLen == 1
MaxDataLen == 1

\* code points of the texts: e-acute and a lone surrogate (U+D800)
CodePoints == {233, 55296}
ByteValues == {65}

SeqsUpTo(S, n) == UNION { [1..k -> S] : k \in 0..n }

Texts == SeqsUpTo(CodePoints, MaxTextLen)
Datas == SeqsUpTo(ByteValues, MaxDataLen)

\* local paths, as stem and extension
JsonPath == [stem |-> "data", ext |-> "json"]
UnknownPath == [stem |-> "blob", ext |-> "qqq"]
BarePath == [stem |-> "README", ext |-> ""]
MissingPath == [stem |-> "missing", ext |-> "txt"]
OutPath == [stem |-> "out", ext |-> "bin"]
Paths == {JsonPath, UnknownPath, BarePath, MissingPath}
DestPaths == {OutPath}

\* the files set_file can read; MissingPath does not exist
Files ==
    [p \in {JsonPath, UnknownPath, BarePath} |->
        IF p = JsonPath THEN <<110, 117, 108, 108>>
        ELSE IF p = UnknownPath THEN <<65>> ELSE <<>>]

\* content types a caller passes explicitly
ExplicitTypes == {"image/png"}

IsSurrogate(cp) == 55296 <= cp /\ cp <= 57343

\* str.encode("utf-8") of one code point of the basic plane
EncodeCodePoint(cp) ==
    IF cp < 128 THEN <<cp>>
    ELSE IF cp < 2048 THEN <<192 + (cp \div 64), 128 + (cp % 64)>>
    ELSE <<224 + (cp \div 4096), 128 + ((cp \div 64) % 64), 128 + (cp % 64)>>

RECURSIVE EncodeAll(_)
EncodeAll(text) ==
    IF text = <<>> THEN <<>>
    ELSE EncodeCodePoint(Head(text)) \o EncodeAll(Tail(text))

\* text.encode("utf-8"): the bytes, or UnicodeEncodeError on a lone surrogate
EncodeUtf8(text) ==
    IF \E i \in 1..Len(text) : IsSurrogate(text[i])
      THEN [raised |-> "UnicodeEncodeError"]
      ELSE [raised |-> None, bytes |-> EncodeAll(text)]

HexDigit(d) == IF d < 10 THEN 48 + d ELSE 87 + d

\* json.dumps of one character of a string
EscapeChar(cp, ensure_ascii) ==
    IF cp = 34 THEN <<92, 34>>
    ELSE IF cp = 92 THEN <<92, 92>>
    ELSE IF cp = 10 THEN <<92, 110>>
    ELSE IF cp = 13 THEN <<92, 114>>
    ELSE IF cp = 9 THEN <<92, 116>>
    ELSE IF cp = 8 THEN <<92, 98>>
    ELSE IF cp = 12 THEN <<92, 102>>
    ELSE IF cp < 32 \/ (ensure_ascii /\ cp > 126)
      THEN <<92, 117, HexDigit(cp \div 4096), HexDigit((cp \div 256) % 16),
             HexDigit((cp \div 16) % 16), HexDigit(cp % 16)>>
    ELSE <<cp>>

RECURSIVE EscapeAll(_, _)
EscapeAll(text, ensure_ascii) ==
    IF text = <<>> THEN <<>>
    ELSE EscapeChar(Head(text), ensure_ascii) \o EscapeAll(Tail(text), ensure_ascii)

\* JSON values given to set_json; a Python set is not serializable
JsonNull == [t |-> "null"]
JsonString(text) == [t |-> "str", v |-> text]
PySet == [t |-> "set"]
JsonValues == {JsonNull, PySet} \cup { JsonString(<<c>>) : c \in CodePoints }

\* json.dumps(value, ensure_ascii=...): the text, or TypeError
Dumps(value, ensure_ascii) ==
    IF value.t = "null" THEN [raised |-> None, text |-> <<110, 117, 108, 108>>]
    ELSE IF value.t = "str"
      THEN [raised |-> None, text |-> <<34>> \o EscapeAll(value.v, ensure_ascii) \o <<34>>]
    ELSE [raised |-> "TypeError"]

\* mimetypes.guess_type(path)[0]
GuessType(path) ==
    IF path.ext = "json" THEN "application/json"
    ELSE IF path.ext = "txt" THEN "text/plain"
    ELSE None

\* Path(path).read_bytes() in the file system fs
ReadBytes(fs, path) ==
    IF path \in DOMAIN fs
      THEN [raised |-> None, bytes |-> fs[path]]
      ELSE [raised |-> "FileNotFoundError"]

\* r without name
Remove(r, name) == [n \in DOMAIN r \ {name} |-> r[n]]

\* what a method of the Storage client did: the exception raised or the
\* value returned, the remote assets afterwards, the number
\* of requests made and the content type of the upload sent
MethodResult(exc, value, as, sentType) ==
    [exc |-> exc, value |-> value, assets |-> as, requests |-> 1, sentType |-> sentType]

ServiceError(as) == MethodResult("AutomizorStorageError", None, as, None)

\* Storage.list_assets(): one request, answered (up) or failed
StorageListAssets(as, up) ==
    IF up THEN MethodResult(None, DOMAIN as, as, None)
    ELSE ServiceError(as)

\* Storage.delete_asset(name): one request
StorageDeleteAsset(as, name, up) ==
    IF up THEN MethodResult(None, None, Remove(as, name), None)
    ELSE ServiceError(as)

\* Storage.get_bytes(name): one request, a service error when the asset is missing
StorageGetBytes(as, name, up) ==
    IF up /\ name \in DOMAIN as
      THEN MethodResult(None, as[name], as, None)
      ELSE ServiceError(as)

\* Storage.get_text(name): the fetched bytes decoded as UTF-8
StorageGetText(as, name, up) ==
    IF up /\ name \in DOMAIN as
      THEN MethodResult(None, [decode |-> "utf-8", of |-> as[name]], as, None)
      ELSE ServiceError(as)

\* Storage.get_json(name): the fetched bytes parsed as JSON
StorageGetJson(as, name, up) ==
    IF up /\ name \in DOMAIN as
      THEN MethodResult(None, [parse |-> "json", of |-> as[name]], as, None)
      ELSE ServiceError(as)

\* Storage.get_file(name, path): the fetched bytes are written to path, a
\* destination no modelled call reads, and path is returned
StorageGetFile(as, name, path, up) ==
    IF up /\ name \in DOMAIN as
      THEN MethodResult(None, path, as, None)
      ELSE ServiceError(as)

\* Storage.set_bytes(name, data, content_type): one upload request; the
\* service replaces whatever it held under name.  The content type travels
\* with the upload; no function of the client reads it back, so the remote
\* state keeps the bytes only
StorageSetBytes(as, name, data, content_type, up) ==
    IF up
      THEN MethodResult(None, None, Store(as, name, data), content_type)
      ELSE MethodResult("AutomizorStorageError", None, as, content_type)

\* the record of the last public storage call
Idle == [op |-> None]

\* a public function whose body is "storage = Storage(); [return]
\* storage.method(...)": one client built, the method's result is the call's
ViaStorage(op, args, res) ==
    /\ assets' = res.assets
    /\ scall' = [op |-> op, args |-> args, exc |-> res.exc, value |-> res.value,
                 clients |-> 1, requests |-> res.requests, sentType |-> res.sentType]

\* a writer that builds its Storage client before the local transformation
LocalFailureAfterClient(op, args, exc) ==
    /\ scall' = [op |-> op, args |-> args, exc |-> exc, value |-> None,
                 clients |-> 1, requests |-> 0, sentType |-> None]
    /\ UNCHANGED assets

\* a public writer whose local transformation raised exc: the statement
\* "storage = Storage()" below it is not reached
LocalFailure(op, args, exc) ==
    /\ scall' = [op |-> op, args |-> args, exc |-> exc, value |-> None,
                 clients |-> 0, requests |-> 0, sentType |-> None]
    /\ UNCHANGED assets

\* the most recent successful write of each name, as the caller passed it
Written(name, data) ==
    lastWrite' = IF scall'.exc = None THEN Store(lastWrite, name, data) ELSE lastWrite

StorageInit ==
    /\ assets = <<>>
    /\ lastWrite = <<>>
    /\ scall = Idle

list_assets ==
    /\ StorageOnly
    /\ \E up \in BOOLEAN :
         ViaStorage("list_assets", [name |-> None], StorageListAssets(assets, up))
    /\ UNCHANGED lastWrite

delete_asset(name) ==
    /\ StorageOnly
    /\ \E up \in BOOLEAN :
         ViaStorage("delete_asset", [name |-> name],
                    StorageDeleteAsset(assets, name, up))
    /\ UNCHANGED lastWrite

get_bytes(name) ==
    /\ StorageOnly
    /\ \E up \in BOOLEAN :
         ViaStorage("get_bytes", [name |-> name], StorageGetBytes(assets, name, up))
    /\ UNCHANGED lastWrite

get_file(name, path) ==
    /\ StorageOnly
    /\ \E up \in BOOLEAN :
         ViaStorage("get_file", [name |-> name],
                    StorageGetFile(assets, name, path, up))
    /\ UNCHANGED lastWrite

get_json(name) ==
    /\ StorageOnly
    /\ \E up \in BOOLEAN :
         ViaStorage("get_json", [name |-> name], StorageGetJson(assets, name, up))
    /\ UNCHANGED lastWrite

get_text(name) ==
    /\ StorageOnly
    /\ \E up \in BOOLEAN :
         ViaStorage("get_text", [name |-> name], StorageGetText(assets, name, up))
    /\ UNCHANGED lastWrite

\* set_bytes that uploads under the name but drops the data
set_bytes_drops_data(name, data, content_type) ==
    /\ StorageOnly
    /\ \E up \in BOOLEAN :
         ViaStorage("set_bytes", [name |-> name],
                    StorageSetBytes(assets, name, <<>>, content_type, up))
    /\ Written(name, data)

set_bytes(name, data, content_type) ==
    /\ StorageOnly
    /\ \E up \in BOOLEAN :
         ViaStorage("set_bytes", [name |-> name],
                    StorageSetBytes(assets, name, data, content_type, up))
    /\ Written(name, data)

\* set_file without the fallback to application/octet-stream
FileContentTypeNoFallback(path, content_type) ==
    IF content_type = None THEN GuessType(path) ELSE content_type

\* the content type set_file uploads with
FileContentType(path, content_type) ==
    IF content_type = None
      THEN IF GuessType(path) = None THEN "application/octet-stream" ELSE GuessType(path)
      ELSE content_type

set_file(name, path, content_type) ==
    LET args == [name |-> name, path |-> path, content_type |-> content_type]
        content == ReadBytes(Files, path)
    IN  /\ StorageOnly
        /\ IF content.raised # None
          THEN LocalFailure("set_file", args, content.raised) /\ UNCHANGED lastWrite
          ELSE /\ \E up \in BOOLEAN :
                    ViaStorage("set_file", args,
                               StorageSetBytes(assets, name, content.bytes,
                                               FileContentType(path, content_type), up))
               /\ Written(name, content.bytes)

set_json(name, value, ensure_ascii) ==
    LET args == [name |-> name, value |-> value]
        dumped == Dumps(value, ensure_ascii)
        content == IF dumped.raised # None THEN dumped ELSE EncodeUtf8(dumped.text)
    IN  /\ StorageOnly
        /\ IF content.raised # None
          THEN LocalFailure("set_json", args, content.raised) /\ UNCHANGED lastWrite
          ELSE /\ \E up \in BOOLEAN :
                    ViaStorage("set_json", args,
                               StorageSetBytes(assets, name, content.bytes,
                                               "application/json", up))
               /\ Written(name, content.bytes)

\* set_text that uploads through a second client as well
set_text_uploads_twice(name, text) ==
    LET args == [name |-> name]
        content == EncodeUtf8(text)
    IN  /\ StorageOnly
        /\ IF content.raised # None
          THEN LocalFailure("set_text", args, content.raised) /\ UNCHANGED lastWrite
          ELSE /\ \E up \in BOOLEAN :
                    LET res == StorageSetBytes(assets, name, content.bytes, "text/plain", up)
                    IN  /\ assets' = res.assets
                        /\ scall' = [op |-> "set_text", args |-> args, exc |-> res.exc,
                                     value |-> res.value, clients |-> 2,
                                     requests |-> 2 * res.requests,
                                     sentType |-> res.sentType]
               /\ Written(name, content.bytes)

set_text(name, text) ==
    LET args == [name |-> name]
        content == EncodeUtf8(text)
    IN  /\ StorageOnly
        /\ IF content.raised # None
          THEN LocalFailure("set_text", args, content.raised) /\ UNCHANGED lastWrite
          ELSE /\ \E up \in BOOLEAN :
                    ViaStorage("set_text", args,
                               StorageSetBytes(assets, name, content.bytes,
                                               "text/plain", up))
               /\ Written(name, content.bytes)

StorageNext ==
    \/ list_assets
    \/ \E n \in AssetNames : delete_asset(n)
    \/ \E n \in AssetNames : get_bytes(n)
    \/ \E n \in AssetNames, p \in DestPaths : get_file(n, p)
    \/ \E n \in AssetNames : get_json(n)
    \/ \E n \in AssetNames : get_text(n)
    \/ \E n \in AssetNames, d \in Datas,
          c \in ExplicitTypes \cup {"application/octet-stream"} : set_bytes(n, d, c)
    \/ \E n \in AssetNames, p \in Paths, c \in ExplicitTypes \cup {None} : set_file(n, p, c)
    \/ \E n \in AssetNames, v \in JsonValues, a \in BOOLEAN : set_json(n, v, a)
    \/ \E n \in AssetNames, t \in Texts : set_text(n, t)

(***************************************************************************)
(* Specifications                                                          *)
(***************************************************************************)

Init == VaultInit /\ InstanceInit /\ StorageInit

SpecVault == Init /\ [][VaultNext]_vars
SpecInstance == Init /\ [][InstanceNext]_vars
SpecStorage == Init /\ [][StorageNext]_vars

(***************************************************************************)
(* Properties                                                              *)
(***************************************************************************)

\* a vault call has returned or raised
Finished(op) == pc = "idle" /\ call.op = op

Methods == [i \in 1..Len(sent) |-> sent[i].method]

\* the i-th answer of the current call is an HTTP response with this status
Answered(i, statuses) ==
    /\ i <= Len(received)
    /\ received[i].kind = "response"
    /\ received[i].status \in statuses

\* the i-th answer of the current call makes the request fail otherwise than by a 404
FailedNot404(i) ==
    /\ i <= Len(received)
    /\ TryRequest(received[i]).raised # None
    /\ ~Answered(i, {404})

\* C1: create_secret issues one PUT and no POST when the PUT answers 2xx, one
\* PUT followed by one POST when the PUT answers 404, and never issues the
\* POST before the 404 of the PUT has been received
C1_CreateRequestOrder ==
    call.op = "create_secret" =>
        /\ Len(sent) \in {1, 2}
        /\ Methods[1] = "PUT"
        /\ Len(sent) = 2 => Methods[2] = "POST" /\ Answered(1, {404})
        /\ Finished("create_secret") /\ Answered(1, 200..299) => Methods = <<"PUT">>
        /\ Finished("create_secret") /\ Answered(1, {404}) => Methods = <<"PUT", "POST">>

C1_Witness ==
    /\ Finished("create_secret")
    /\ Methods = <<"PUT", "POST">>
    /\ Answered(1, {404})
    /\ result.kind = "ok"

\* C2: a response whose status is neither 2xx nor 404 makes the call fail with
\* AutomizorVaultError, whose message is the parsed JSON body when the body is
\* JSON and the description of the exception otherwise
C2_ErrorDetailInMessage ==
    \A op \in {"get_secret", "set_secret", "create_secret"} :
        Finished(op) /\ Answered(Len(received), (100..599) \ ((200..299) \cup {404})) =>
            /\ result.kind = "AutomizorVaultError"
            /\ result.msg = IF LastReceived.body.fmt = "json"
                              THEN [t |-> "json", data |-> LastReceived.body.t]
                              ELSE StrExc(TryRequest(LastReceived))

\* C3: get_secret and set_secret raise SecretNotFoundError exactly on a 404,
\* AutomizorVaultError on every other failure, and set_secret issues no POST
C3_NotFoundOnlyOn404 ==
    /\ call.op = "set_secret" => \A i \in 1..Len(sent) : Methods[i] # "POST"
    /\ \A op \in {"get_secret", "set_secret"} :
           Finished(op) =>
               /\ Answered(1, {404}) => result.kind = "SecretNotFoundError"
               /\ ~Answered(1, {404}) /\ result.kind # "ok" =>
                      result.kind = "AutomizorVaultError"
               /\ FailedNot404(1) => result.kind = "AutomizorVaultError"

C3_Witness ==
    /\ Finished("set_secret")
    /\ Answered(1, {404})
    /\ result.kind = "SecretNotFoundError"

\* no fault was injected into the current call: every answer came from the service
NoFault == \A i \in 1..Len(received) : received[i] \notin Faults

\* C4: when the service answers every request of a create_secret, the call
\* returns the stored secret and the remote holds exactly the given value
\* under the name, whether or not the name existed before
C4_CreateOrUpdate ==
    Finished("create_secret") /\ NoFault =>
        /\ result = Returned(call.secret)
        /\ Exists(remote, call.name)
        /\ remote[call.name] = call.secret.value
        /\ result.value = [name |-> call.name, value |-> remote[call.name]]

\* the name existed with another value, and the call replaced it
C4_Witness ==
    /\ Finished("create_secret")
    /\ NoFault
    /\ Methods = <<"PUT">>
    /\ result.kind = "ok"
    /\ remote[call.name] = call.secret.value
    /\ \E n \in DOMAIN remote : remote[n] # call.secret.value

\* C5: get_secret issues one GET, set_secret one PUT, create_secret at most
\* two requests; a request that fails otherwise than by a 404 is the last of
\* its call and the call raises AutomizorVaultError
C5_NoRetry ==
    /\ call.op = "get_secret" => Methods = <<"GET">>
    /\ call.op = "set_secret" => Methods = <<"PUT">>
    /\ call.op = "create_secret" => Len(sent) <= 2
    /\ call.op # None => Len(received) <= Len(sent)
    /\ \A i \in 1..Len(received) :
           FailedNot404(i) =>
               /\ Len(sent) = i
               /\ pc = "idle" => result.kind = "AutomizorVaultError"

C5_Witness ==
    /\ Finished("create_secret")
    /\ FailedNot404(1)
    /\ received[1] = Timeout
    /\ Methods = <<"PUT">>
    /\ result.kind = "AutomizorVaultError"

\* C6: no instance is stored before the first get_instance; all get_instance
\* calls return the same instance; the accessor constructs at most once; a
\* direct construction never replaces the stored instance
C6_SingletonStable ==
    /\ [](/\ getCalls = 0 => instance = NoInstance /\ returned = {}
          /\ getCalls > 0 => instance # NoInstance /\ returned = {instance}
          /\ accessorBuilt <= 1)
    /\ [][/\ instance # NoInstance => instance' = instance
          /\ getCalls' = getCalls => instance' = instance]_vars

C6_Witness ==
    /\ getCalls >= 2
    /\ instance = 2
    /\ vaults >= 3
    /\ returned = {2}
    /\ accessorBuilt = 1

Writers == {"set_bytes", "set_file", "set_json", "set_text"}

C8_SetFileContentType ==
    scall.op = "set_file" /\ scall.clients > 0 =>
        LET given == scall.args.content_type
            path == scall.args.path
        IN  /\ given # None => scall.sentType = given
            /\ given = None /\ path.ext = "json" => scall.sentType = "application/json"
            /\ given = None /\ GuessType(path) # None => scall.sentType = GuessType(path)
            /\ given = None /\ GuessType(path) = None =>
                   scall.sentType = "application/octet-stream"
            /\ scall.sentType # None

C8_Witness ==
    /\ scall.op = "set_file"
    /\ scall.exc = None
    /\ scall.args.content_type = None
    /\ scall.args.path = UnknownPath
    /\ scall.sentType = "application/octet-stream"

LocalErrors == {"TypeError", "UnicodeEncodeError", "FileNotFoundError"}

C10_LocalFailureBeforeClient ==
    /\ [](/\ scall.op = "set_json" /\ scall.args.value = PySet =>
               scall.exc = "TypeError" /\ scall.clients = 0 /\ scall.requests = 0
          /\ scall.op = "set_file" /\ scall.args.path \notin DOMAIN Files =>
               scall.exc = "FileNotFoundError" /\ scall.clients = 0 /\ scall.requests = 0
          /\ scall.op # None /\ scall.exc \in LocalErrors =>
               scall.clients = 0 /\ scall.requests = 0)
    /\ [][scall'.op # None /\ scall'.exc \in LocalErrors => assets' = assets]_vars

C10_Witness ==
    /\ scall.op = "set_json"
    /\ scall.args.value = PySet
    /\ scall.exc = "TypeError"
    /\ scall.clients = 0
    /\ DOMAIN assets = AssetNames

====
